---- MODULE Spec2Model ----
(***************************************************************************)
(* The todo list of src/src/components/todo-app.js: the TodoApp component  *)
(* (the List Controller), its TodoItem children (the Item Controllers),    *)
(* the fetch requests they have in flight and the timers of the delayed    *)
(* delete.  Every handler, promise callback and timer callback is one      *)
(* action; the re-render that React performs after the state updates of a  *)
(* handler (effects re-run, children mounted and unmounted, the in-place   *)
(* sort of the list) is part of that action.                               *)
(***************************************************************************)
EXTENDS Integers, Sequences, FiniteSets, Bags, TLC

(***************************************************************************)
(* Bounds of the model.                                                    *)
(***************************************************************************)
\* create/update/delete requests issued over a run
MaxReq == 2
\* items the collection holds
MaxTodos == 2
\* presses of "Reset app"
MaxRefresh == 1

\* The delay of the delete countdown (1250 ms).  The clock of the model ticks
\* once per delay: a timer is pending for one tick and is then due, and every
\* order of events that wall-clock time allows is an order of the model.
DelayTicks == 1

(***************************************************************************)
(* Identifiers.  The server hands out identifiers as decimal strings; a    *)
(* string is modelled by its sequence of digits and the draft, which has   *)
(* no id, by the empty sequence.                                           *)
(***************************************************************************)
NoId == <<>>

RECURSIVE IdStr(_)
IdStr(n) == IF n < 10 THEN <<n>> ELSE Append(IdStr(n \div 10), n % 10)

RECURSIVE Number(_)
Number(s) ==
    IF Len(s) = 0 THEN 0
    ELSE 10 * Number(SubSeq(s, 1, Len(s) - 1)) + s[Len(s)]

\* the identifiers of the seeded store and the first one a create is given
SeedNums == {9}
FirstId == 10

Texts == {"", "B"}
SeedText == "B"

AllIds == {IdStr(n) : n \in SeedNums \cup (FirstId .. FirstId + MaxReq - 1)}
Slots == {NoId} \cup AllIds

\* what GET /api/todos may answer: the seeded items, in any order
SeedLists ==
    {<<>>}
    \cup {<<[id |-> IdStr(a), text |-> SeedText]>> : a \in SeedNums}
    \cup {<<[id |-> IdStr(p[1]), text |-> SeedText], [id |-> IdStr(p[2]), text |-> SeedText]>> :
            p \in {q \in SeedNums \X SeedNums : q[1] # q[2]}}

VARIABLES
    appMounted,   \* the TodoApp component is mounted
    isMounted,    \* isMounted.current
    isLoading,
    todos,        \* the collection: a sequence of [id, text]
    newTodo,      \* the draft slot: <<>> (null) or <<[text |-> t]>>
    refresh,
    loads,        \* loads[k]: the GET issued by the k-th run of the load effect
    ctl,          \* the TodoItem instances, by the id of their todo
    draftInst,    \* number of draft TodoItem instances mounted so far
    net,          \* the POST/PATCH/DELETE requests issued so far: a bag
    nextId,       \* the server's identifier counter
    last,         \* the handler or callback that ran last
    cancelled     \* the TodoItems it unmounted while their countdown was pending

\* the state of the components, the network and the server
prog == <<appMounted, isMounted, isLoading, todos, newTodo, refresh, loads,
          ctl, draftInst, net, nextId>>

vars == <<prog, last, cancelled>>

(***************************************************************************)
(* The list render: todos.sort(...).reverse(), in place.                   *)
(***************************************************************************)
\* the order of the identifiers as strings
RECURSIVE LexGreater(_, _)
LexGreater(s, t) ==
    IF s = <<>> THEN FALSE
    ELSE IF t = <<>> THEN TRUE
    ELSE IF Head(s) # Head(t) THEN Head(s) > Head(t)
    ELSE LexGreater(Tail(s), Tail(t))

\* a comparator that compares the identifiers as strings
CompareAsStrings(a, b) == IF LexGreater(a.id, b.id) THEN 1 ELSE -1

Compare(a, b) == IF Number(a.id) > Number(b.id) THEN 1 ELSE -1

RECURSIVE InsertSorted(_, _)
InsertSorted(x, s) ==
    IF s = <<>> THEN <<x>>
    ELSE IF Compare(x, Head(s)) < 0 THEN <<x>> \o s
    ELSE <<Head(s)>> \o InsertSorted(x, Tail(s))

RECURSIVE Sort(_)
Sort(s) == IF s = <<>> THEN <<>> ELSE InsertSorted(Head(s), Sort(Tail(s)))

Reverse(s) == [i \in 1 .. Len(s) |-> s[Len(s) + 1 - i]]

SortedForDisplay(td) == Reverse(Sort(td))

\* the list is rendered only by a mounted TodoApp that is not loading
ListShown(am, il) == am /\ ~il

RenderTodos(am, il, td) == IF ListShown(am, il) THEN SortedForDisplay(td) ELSE td

(***************************************************************************)
(* TodoItem instances.                                                     *)
(***************************************************************************)
Unmounted ==
    [mounted |-> FALSE, text |-> "", isSaving |-> FALSE, isChecked |-> FALSE,
     timers |-> <<>>]

MountItem(t) ==
    [mounted |-> TRUE, text |-> t, isSaving |-> FALSE, isChecked |-> FALSE,
     timers |-> <<>>]

\* a cleanup that leaves the timer running
TimeoutKept(ts) == ts

\* clearTimeout(id): the timer of the last run of the effect, if still pending
ClearTimeout(ts) == IF ts = <<>> THEN ts ELSE SubSeq(ts, 1, Len(ts) - 1)

\* setTimeout(destroyTodo, 1250)
SetTimeout(ts) == Append(ts, DelayTicks)

\* the delayed-delete effect runs again with isChecked unchanged: the cleanup
\* of the previous run (present only if it armed a timer), then the body
EffectRerun(c) ==
    IF c.isChecked THEN [c EXCEPT !.timers = SetTimeout(ClearTimeout(c.timers))]
    ELSE c

HasId(td, id) == \E i \in 1 .. Len(td) : td[i].id = id

TextOf(td, id) == td[CHOOSE i \in 1 .. Len(td) : td[i].id = id].text

\* an unmount that runs no cleanup
NoCleanup(c) == c.timers

\* the cleanup of the delayed-delete effect when the TodoItem unmounts
Cleanup(c) == IF c.isChecked THEN ClearTimeout(c.timers) ELSE c.timers

\* The children after a render of TodoApp.  A TodoItem is kept while its slot
\* is rendered; a kept persisted item receives a new didDestroy, a kept draft
\* a new todo only if the draft object was replaced (draftNew).
Rendered(c, am, il, td, nt, draftNew) ==
    [s \in Slots |->
        LET want == ListShown(am, il)
                    /\ (IF s = NoId THEN nt # <<>> ELSE HasId(td, s))
        IN  IF ~want
              THEN [Unmounted EXCEPT !.timers = Cleanup(c[s])]
            ELSE IF c[s].mounted
              THEN IF s # NoId \/ draftNew THEN EffectRerun(c[s]) ELSE c[s]
            ELSE MountItem(IF s = NoId THEN nt[1].text ELSE TextOf(td, s))]

Owner(s) == [slot |-> s, inst |-> IF s = NoId THEN draftInst ELSE 0]

OwnerLive(o) ==
    ctl[o.slot].mounted /\ (o.slot # NoId \/ o.inst = draftInst)

Init ==
    /\ appMounted = TRUE
    /\ isMounted = TRUE
    /\ isLoading = TRUE
    /\ todos = <<>>
    /\ newTodo = <<>>
    /\ refresh = 0
    /\ loads = <<"pending">>
    /\ ctl = [s \in Slots |-> Unmounted]
    /\ draftInst = 0
    /\ net = EmptyBag
    /\ nextId = FirstId
    /\ last = "mount"
    /\ cancelled = {}

\* a render of TodoApp that ends a handler: children and the draft counter
RenderApp(c, am, il, td, nt, draftNew) ==
    LET r == Rendered(c, am, il, td, nt, draftNew)
    IN  /\ ctl' = r
        /\ draftInst' = IF ~c[NoId].mounted /\ r[NoId].mounted
                        THEN draftInst + 1 ELSE draftInst

(***************************************************************************)
(* TodoApp: the load effect and its completion.                            *)
(***************************************************************************)
\* a completion that does not look at isMounted.current
GuardDropped == TRUE

IsMountedGuard == isMounted

LoadResolve(k) ==
    /\ loads[k] = "pending"
    /\ loads' = [loads EXCEPT ![k] = "ok"]
    /\ \E json \in SeedLists :
        IF IsMountedGuard /\ appMounted
        THEN /\ todos' = RenderTodos(appMounted, FALSE, json)
             /\ isLoading' = FALSE
             /\ RenderApp(ctl, appMounted, FALSE, json, newTodo, FALSE)
        ELSE UNCHANGED <<todos, isLoading, ctl, draftInst>>
    /\ UNCHANGED <<appMounted, isMounted, newTodo, refresh, net, nextId>>

LoadReject(k) ==
    /\ loads[k] = "pending"
    /\ loads' = [loads EXCEPT ![k] = "failed"]
    /\ UNCHANGED <<appMounted, isMounted, isLoading, todos, newTodo, refresh,
                   ctl, draftInst, net, nextId>>

(***************************************************************************)
(* TodoApp: the add button, the reset button and the unmount.              *)
(***************************************************************************)
\* the fetch calls made so far; the gestures of the user on the list and on
\* a TodoItem are followed up to the last request of the run
Issued == BagCardinality(net)

\* an add button that adds a draft to the ones there are
DraftStacked(nt) == Append(nt, [text |-> ""])

\* setNewTodo({ text: "" })
DraftSet(nt) == <<[text |-> ""]>>

\* onClick of the add button, which is rendered while the list is
StartDraft ==
    /\ ListShown(appMounted, isLoading)
    /\ Issued < MaxReq
    /\ newTodo' = DraftSet(newTodo)
    /\ todos' = RenderTodos(appMounted, isLoading, todos)
    /\ RenderApp(ctl, appMounted, isLoading, todos, DraftSet(newTodo), TRUE)
    /\ UNCHANGED <<appMounted, isMounted, isLoading, refresh, loads, net, nextId>>

\* the global `server` that guards the reset
server == TRUE

\* resetApp, then the load effect for the new `refresh`: the cleanup of the
\* previous run, setIsLoading(true) and a new GET
ResetApp ==
    /\ appMounted
    /\ server
    /\ refresh < MaxRefresh
    /\ refresh' = refresh + 1
    /\ isMounted' = FALSE
    /\ isLoading' = TRUE
    /\ loads' = Append(loads, "pending")
    /\ RenderApp(ctl, appMounted, TRUE, todos, newTodo, FALSE)
    /\ UNCHANGED <<appMounted, todos, newTodo, net, nextId>>

\* TodoApp leaves the page: the cleanups of all effects run
Unmount ==
    /\ appMounted
    /\ appMounted' = FALSE
    /\ isMounted' = FALSE
    /\ RenderApp(ctl, FALSE, isLoading, todos, newTodo, FALSE)
    /\ UNCHANGED <<isLoading, todos, newTodo, refresh, loads, net, nextId>>

(***************************************************************************)
(* TodoItem: the handlers.                                                 *)
(***************************************************************************)
\* onChange of the text input, which is disabled while isSaving
SetText(s, t) ==
    /\ ctl[s].mounted
    /\ ~ctl[s].isSaving
    /\ t # ctl[s].text
    /\ Issued < MaxReq
    /\ ctl' = [ctl EXCEPT ![s].text = t]
    /\ UNCHANGED <<appMounted, isMounted, isLoading, todos, newTodo, refresh,
                   loads, draftInst, net, nextId>>

Request(m, s, t) ==
    [method |-> m, id |-> s, text |-> t, owner |-> Owner(s), status |-> "pending"]

Send(r) == net (+) SetToBag({r})

\* the requests in flight
InFlight(m) == {r \in BagToSet(net) : r.method = m /\ r.status = "pending"}

\* a request that has completed stays in the log, without its body
Completed(r, st) == (net (-) SetToBag({r})) (+) SetToBag({[r EXCEPT !.status = st, !.text = ""]})

\* todo.text = text, on the draft object
DraftWithText(nt, t) == <<[text |-> t]>>

createTodo(s) ==
    /\ ctl' = [ctl EXCEPT ![s].isSaving = TRUE]
    /\ newTodo' = DraftWithText(newTodo, ctl[s].text)
    /\ net' = Send(Request("POST", NoId, ctl[s].text))
    /\ UNCHANGED <<appMounted, isMounted, isLoading, todos, refresh, loads,
                   draftInst, nextId>>

\* todo.text = text, on the object that is the member of todos
TodosWithText(td, id, t) ==
    [i \in 1 .. Len(td) |-> IF td[i].id = id THEN [td[i] EXCEPT !.text = t] ELSE td[i]]

saveTodo(s) ==
    /\ ctl' = [ctl EXCEPT ![s].isSaving = TRUE]
    /\ todos' = TodosWithText(todos, s, ctl[s].text)
    /\ net' = Send(Request("PATCH", s, ctl[s].text))
    /\ UNCHANGED <<appMounted, isMounted, isLoading, newTodo, refresh, loads,
                   draftInst, nextId>>

\* a commit that takes every buffer for a changed one
AlwaysChanged(s) == TRUE

\* todo.text !== text
TextChanged(s) == TextOf(todos, s) # ctl[s].text

\* onSubmit of the form and onBlur of the input.  The handler does not look at
\* isSaving, and whether a blur still reaches an input that was disabled while
\* it had the focus depends on the browser: both outcomes are behaviours.
handleSubmit(s) ==
    /\ ctl[s].mounted
    /\ IF s = NoId
         THEN Issued < MaxReq /\ createTodo(s)
       ELSE IF TextChanged(s)
         THEN Issued < MaxReq /\ saveTodo(s)
       ELSE UNCHANGED prog

\* an effect without cleanup
ToggleKeepsTimer(ts, v) == IF v THEN SetTimeout(ts) ELSE ts

\* the delayed-delete effect after isChecked changed to v: the cleanup of the
\* run for the old value, which armed a timer if that was true, then the body
EffectOnToggle(ts, v) == IF v THEN SetTimeout(ts) ELSE ClearTimeout(ts)

\* onChange of the checkbox, which is disabled while isSaving, then the
\* delayed-delete effect for the new isChecked
handleCheckboxChange(s, v) ==
    /\ ctl[s].mounted
    /\ ~ctl[s].isSaving
    /\ v # ctl[s].isChecked
    /\ Issued < MaxReq
    /\ ctl' = [ctl EXCEPT ![s].isChecked = v,
                          ![s].timers = EffectOnToggle(@, v)]
    /\ UNCHANGED <<appMounted, isMounted, isLoading, todos, newTodo, refresh,
                   loads, draftInst, net, nextId>>

(***************************************************************************)
(* The clock and the timer callback.                                       *)
(***************************************************************************)
Pending(s) == {j \in 1 .. Len(ctl[s].timers) : TRUE}
Due(s) == {j \in 1 .. Len(ctl[s].timers) : ctl[s].timers[j] = 0}

Tick ==
    /\ \E s \in Slots : Pending(s) # {}
    /\ \A s \in Slots : Due(s) = {}
    /\ ctl' = [s \in Slots |->
                [ctl[s] EXCEPT !.timers = [j \in 1 .. Len(@) |-> @[j] - 1]]]
    /\ UNCHANGED <<appMounted, isMounted, isLoading, todos, newTodo, refresh,
                   loads, draftInst, net, nextId>>

RemoveAt(ts, j) == SubSeq(ts, 1, j - 1) \o SubSeq(ts, j + 1, Len(ts))

\* the timeout callback: destroyTodo()
destroyTodo(s) ==
    /\ \E j \in Due(s) :
        ctl' = [ctl EXCEPT ![s].timers = RemoveAt(@, j),
                           ![s].isSaving = IF ctl[s].mounted THEN TRUE ELSE @]
    /\ Issued < MaxReq
    /\ net' = Send(Request("DELETE", s, ""))
    /\ UNCHANGED <<appMounted, isMounted, isLoading, todos, newTodo, refresh,
                   loads, draftInst, nextId>>

(***************************************************************************)
(* Completions of the requests.                                            *)
(***************************************************************************)
\* setIsSaving(false) in the callback's TodoItem, if it is still mounted
SavingCleared(o) ==
    IF OwnerLive(o) THEN [ctl EXCEPT ![o.slot].isSaving = FALSE] ELSE ctl

\* an add that inserts the item twice
AddedTwice(td, todo) == <<todo, todo>> \o td

addTodo(td, todo) == <<todo>> \o td

\* an update that does not look at the id
ReplaceAll(td, todo) == [i \in 1 .. Len(td) |-> todo]

\* an update that adds the item if no member has its id
Upserted(td, todo) ==
    IF \E i \in 1 .. Len(td) : td[i].id = todo.id
    THEN [i \in 1 .. Len(td) |-> IF td[i].id = todo.id THEN todo ELSE td[i]]
    ELSE <<todo>> \o td

updateTodo(td, todo) ==
    [i \in 1 .. Len(td) |-> IF td[i].id = todo.id THEN todo ELSE td[i]]

\* a remove that drops the whole collection
RemovedAll(td, id) == <<>>

removeTodo(td, id) == SelectSeq(td, LAMBDA g : g.id # id)

\* applies a completion's setNewTodo / setTodos, which a TodoApp that is no
\* longer mounted ignores
Apply(o, td, nt) ==
    IF appMounted
    THEN /\ todos' = RenderTodos(appMounted, isLoading, td)
         /\ newTodo' = nt
         /\ RenderApp(SavingCleared(o), appMounted, isLoading, td, nt, FALSE)
    ELSE UNCHANGED <<todos, newTodo, ctl, draftInst>>

CreateResolve(r) ==
    /\ r \in InFlight("POST")
    /\ Len(todos) < MaxTodos
    /\ net' = Completed(r, "ok")
    /\ nextId' = nextId + 1
    /\ Apply(r.owner,
             addTodo(todos, [id |-> IdStr(nextId), text |-> r.text]), <<>>)
    /\ UNCHANGED <<appMounted, isMounted, isLoading, refresh, loads>>

SaveResolve(r) ==
    /\ r \in InFlight("PATCH")
    /\ net' = Completed(r, "ok")
    /\ Apply(r.owner,
             updateTodo(todos, [id |-> r.id, text |-> r.text]), newTodo)
    /\ UNCHANGED <<appMounted, isMounted, isLoading, refresh, loads, nextId>>

DestroyResolve(r) ==
    /\ r \in InFlight("DELETE")
    /\ net' = Completed(r, "ok")
    /\ Apply(r.owner, removeTodo(todos, r.id), newTodo)
    /\ UNCHANGED <<appMounted, isMounted, isLoading, refresh, loads, nextId>>

\* the fetch rejects: no callback runs
Reject(r) ==
    /\ r.status = "pending"
    /\ net' = Completed(r, "failed")
    /\ UNCHANGED <<appMounted, isMounted, isLoading, todos, newTodo, refresh,
                   loads, ctl, draftInst, nextId>>

\* the record of a step: the handler that ran and the TodoItems that its
\* render unmounted while they were checked with a timer pending
Ran(a) ==
    /\ last' = a
    /\ cancelled' = {s \in Slots : /\ ctl[s].mounted /\ ~ctl'[s].mounted
                                   /\ ctl[s].isChecked /\ ctl[s].timers # <<>>}

Next ==
    \/ \E k \in 1 .. Len(loads) : LoadResolve(k) /\ Ran("LoadResolve")
    \/ \E k \in 1 .. Len(loads) : LoadReject(k) /\ Ran("LoadReject")
    \/ StartDraft /\ Ran("StartDraft")
    \/ ResetApp /\ Ran("ResetApp")
    \/ Unmount /\ Ran("Unmount")
    \/ \E s \in Slots, t \in Texts : SetText(s, t) /\ Ran("SetText")
    \/ \E s \in Slots : handleSubmit(s) /\ Ran("handleSubmit")
    \/ \E s \in Slots, v \in BOOLEAN : handleCheckboxChange(s, v) /\ Ran("handleCheckboxChange")
    \/ Tick /\ Ran("Tick")
    \/ \E s \in Slots : destroyTodo(s) /\ Ran("destroyTodo")
    \/ \E r \in BagToSet(net) : CreateResolve(r) /\ Ran("CreateResolve")
    \/ \E r \in BagToSet(net) : SaveResolve(r) /\ Ran("SaveResolve")
    \/ \E r \in BagToSet(net) : DestroyResolve(r) /\ Ran("DestroyResolve")
    \/ \E r \in BagToSet(net) : Reject(r) /\ Ran("Reject")

Spec == Init /\ [][Next]_vars

(***************************************************************************)
(* The scheduling the browser guarantees: time passes, a due timer's       *)
(* callback runs, and a request that is in flight is answered.             *)
(***************************************************************************)
Fairness ==
    /\ WF_vars(Tick /\ Ran("Tick"))
    /\ \A s \in Slots : WF_vars(destroyTodo(s) /\ Ran("destroyTodo"))
    /\ WF_vars(\E k \in 1 .. Len(loads) : LoadResolve(k) /\ Ran("LoadResolve"))
    /\ WF_vars(\E r \in BagToSet(net) : CreateResolve(r) /\ Ran("CreateResolve"))
    /\ WF_vars(\E r \in BagToSet(net) : SaveResolve(r) /\ Ran("SaveResolve"))
    /\ WF_vars(\E r \in BagToSet(net) : DestroyResolve(r) /\ Ran("DestroyResolve"))

FairSpec == Spec /\ Fairness

(***************************************************************************)
(* Properties.                                                             *)
(***************************************************************************)
\* the requests of the log that satisfy a condition, counted with multiplicity
Count(S) == BagCardinality([r \in S |-> net[r]])

Deletes(id) == Count({r \in BagToSet(net) : r.method = "DELETE" /\ r.id = id})

PostsOf(inst) ==
    Count({r \in BagToSet(net) : r.method = "POST" /\ r.owner.inst = inst})

OutstandingOf(o) ==
    Count({r \in BagToSet(net) : r.owner = o /\ r.status = "pending"})

ConfirmedResult == {"LoadResolve", "CreateResolve", "SaveResolve", "DestroyResolve"}

\* C1: the collection changes only in a step that applies a confirmed network
\* result (a load, create, update or delete that completed); issuing a
\* request leaves every member as it was last confirmed.
C1_CollectionOnlyOnConfirmed ==
    [][todos' # todos => last' \in ConfirmedResult]_vars

\* C2: on a mounted TodoApp, once the fetch of the latest load (the one a
\* reset started) has resolved successfully, the loading flag is cleared.
C2_ReloadTakesEffect ==
    (appMounted /\ loads[Len(loads)] = "ok") => ~isLoading

\* C3: over the whole run at most one delete request is issued for an
\* identifier.
C3_OneDeletePerItem ==
    \A id \in AllIds : Deletes(id) <= 1

\* C4: a draft issues at most one create request, whatever sequence of
\* submits and blurs it receives.
C4_OneCreatePerDraft ==
    \A k \in 1 .. draftInst : PostsOf(k) <= 1

\* C5: handleSubmit on a TodoItem that is saving changes nothing and sends
\* nothing.
C5_CommitWhileSavingIsNoop ==
    [][\A s \in Slots :
        (ctl[s].mounted /\ ctl[s].isSaving /\ last' = "handleSubmit" /\ handleSubmit(s))
            => UNCHANGED prog]_vars

\* C6: a create, update or delete that completes after the TodoItem that
\* issued it was torn down leaves the collection and the draft slot as they
\* were.
C6_StaleCompletionDiscarded ==
    [][\A r \in BagToSet(net) :
        (r.status = "pending" /\ ~OwnerLive(r.owner) /\ net' = Completed(r, "ok"))
            => UNCHANGED <<todos, newTodo>>]_vars

\* C7: a TodoItem has at most one request outstanding; stated for the
\* TodoItems of persisted items, where the claim places the case of an item
\* that is checked, then edited and committed before the countdown elapses.
C7_OneOutstandingPerItem ==
    \A r \in BagToSet(net) : r.owner.slot # NoId => OutstandingOf(r.owner) <= 1

\* C8: the gesture that unchecks a TodoItem leaves it without a timer, sends
\* nothing and leaves the collection alone, and a step that sends a request
\* sends no delete for a TodoItem that is not checked: a reversed gesture
\* deletes nothing.
C8_ReversedGestureDeletesNothing ==
    [][/\ last' = "handleCheckboxChange" =>
            \A s \in Slots :
                (ctl[s].isChecked /\ ~ctl'[s].isChecked)
                    => (ctl'[s].timers = <<>> /\ UNCHANGED <<todos, net>>)
       /\ net' # net =>
            \A s \in Slots : ~ctl[s].isChecked => (Deletes(s))' = Deletes(s)]_vars

\* a persisted item, alone in the list, was checked and has just been
\* unchecked: no timer is left, no delete was sent and the item is there
C8_Witness ==
    /\ last = "handleCheckboxChange"
    /\ \E s \in AllIds :
        /\ ctl[s].mounted /\ ~ctl[s].isChecked /\ ctl[s].timers = <<>>
        /\ Deletes(s) = 0
        /\ HasId(todos, s)
        /\ \A u \in Slots \ {s} : ~ctl[u].mounted

\* C9: a load that resolves once the cleanup of the load effect has run (the
\* TodoApp is torn down) writes neither the collection nor the loading flag,
\* and no other state of the components.
C9_StaleLoadDiscarded ==
    [][(last' = "LoadResolve" /\ ~isMounted)
          => UNCHANGED <<todos, isLoading, newTodo, ctl>>]_vars

\* the first load resolved after the TodoApp was unmounted: the list is
\* still empty and still loading
C9_Witness ==
    /\ last = "LoadResolve"
    /\ ~appMounted
    /\ loads = <<"ok">>
    /\ isLoading
    /\ todos = <<>>

\* C10: a persisted item that is checked is eventually unchecked, torn down
\* or has its delete request issued (within the request budget of the
\* model), whatever happens on other items meanwhile.
C10_DeleteEventuallyIssued ==
    \A s \in AllIds :
        (ctl[s].mounted /\ ctl[s].isChecked)
            ~> (~ctl[s].mounted \/ ~ctl[s].isChecked \/ Deletes(s) > 0 \/ Issued = MaxReq)

\* what the list shows, top to bottom: the draft slot, then the todos
Display ==
    IF ListShown(appMounted, isLoading)
    THEN (IF newTodo # <<>> THEN <<NoId>> ELSE <<>>)
            \o [i \in 1 .. Len(todos) |-> todos[i].id]
    ELSE <<>>

\* C11: whenever the list is rendered, the persisted items appear in strictly
\* descending order of their identifiers compared as numbers ("10" before
\* "9"), and the draft, if any, comes first and only first.
C11_DescendingNumericOrder ==
    \A i \in 1 .. Len(Display) :
        /\ Display[i] = NoId => i = 1
        /\ Display[i] # NoId =>
             \A j \in (i + 1) .. Len(Display) :
                Number(Display[i]) > Number(Display[j])

\* the list shows a draft above item 10 above item 9, after the create of 10
\* was added to a loaded list and a new draft was started
C11_Witness ==
    /\ last = "StartDraft"
    /\ Display = <<NoId, IdStr(10), IdStr(9)>>
    /\ ctl[NoId].mounted

PatchesFor(id) == Count({r \in BagToSet(net) : r.method = "PATCH" /\ r.id = id})

\* C12: a commit sends no update for, and does not change the saving flag
\* of, a persisted item whose buffer equals the text of its todo.
C12_UnchangedCommitSendsNothing ==
    [][last' = "handleSubmit" =>
        \A s \in AllIds :
            (ctl[s].mounted /\ ctl[s].text = TextOf(todos, s))
                => ((PatchesFor(s))' = PatchesFor(s)
                    /\ ctl'[s].isSaving = ctl[s].isSaving)]_vars

\* the only TodoItem of the list was committed with its buffer unchanged:
\* nothing was sent and it is not saving
C12_Witness ==
    /\ last = "handleSubmit"
    /\ net = EmptyBag
    /\ \E s \in AllIds :
        /\ ctl[s].mounted /\ ~ctl[s].isSaving
        /\ ctl[s].text = TextOf(todos, s)
        /\ \A u \in Slots \ {s} : ~ctl[u].mounted

Members(td) == {td[i] : i \in 1 .. Len(td)}

\* C13: a commit on a persisted item whose buffer differs from the text of
\* its todo sends exactly one request, a PATCH for that id that carries the
\* buffer; and when a PATCH succeeds, the member with its id is replaced by
\* the confirmed item and every other member is as it was.
C13_ChangedCommitUpdatesOneItem ==
    [][/\ \A s \in AllIds :
            (last' = "handleSubmit" /\ ctl[s].mounted
                /\ ctl[s].text # TextOf(todos, s) /\ handleSubmit(s))
            => \E r \in BagToSet(net') :
                /\ r.method = "PATCH" /\ r.id = s /\ r.text = ctl[s].text
                /\ r.status = "pending"
                /\ net' = net (+) SetToBag({r})
       /\ \A r \in BagToSet(net) :
            (last' = "SaveResolve" /\ r.method = "PATCH" /\ r.status = "pending"
                /\ net' = Completed(r, "ok") /\ appMounted)
            => /\ Len(todos') = Len(todos)
               /\ Members(todos') =
                    {IF g.id = r.id THEN [id |-> r.id, text |-> r.text] ELSE g :
                        g \in Members(todos)}]_vars

\* the PATCH of item 9, which carried the text "", has succeeded in a list
\* of two items: item 9 has the new text and item 10 is there
C13_Witness ==
    /\ last = "SaveResolve"
    /\ appMounted
    /\ Len(todos) = 2
    /\ HasId(todos, IdStr(10))
    /\ HasId(todos, IdStr(9)) /\ TextOf(todos, IdStr(9)) = ""
    /\ \E r \in BagToSet(net) :
            r.method = "PATCH" /\ r.id = IdStr(9) /\ r.status = "ok"

\* C14: the TodoItem of the draft, whose todo has no id, is never checked,
\* never has a countdown and no DELETE is ever sent for a todo without id.
C14_NoCheckGestureOnDraft ==
    /\ ~ctl[NoId].isChecked
    /\ ctl[NoId].timers = <<>>
    /\ Deletes(NoId) = 0

\* C15: a TodoItem that is not mounted has no timer, and a DELETE is sent
\* only by a mounted TodoItem: once a checked TodoItem is torn down with its
\* countdown pending, it sends no DELETE.
C15_TeardownCancelsCountdown ==
    /\ [](\A s \in Slots : ~ctl[s].mounted => ctl[s].timers = <<>>)
    /\ [][net' # net =>
            \A s \in Slots : (Deletes(s))' > Deletes(s) => ctl[s].mounted]_vars

\* "Reset app" replaced the list by the loading state while item 9 was
\* checked with its countdown pending and no DELETE sent: the timer is gone
C15_Witness ==
    /\ last = "ResetApp"
    /\ isLoading
    /\ LET s == IdStr(9)
       IN  /\ s \in cancelled
           /\ HasId(todos, s)
           /\ ~ctl[s].mounted
           /\ ctl[s].timers = <<>>
           /\ Deletes(s) = 0

\* C16: with a server that lists no identifier twice and gives every create
\* an identifier it never gave before, no two members of the collection have
\* the same id.
C16_UniqueIdentifiers ==
    \A i, j \in 1 .. Len(todos) : i # j => todos[i].id # todos[j].id

\* two creates have completed on a list that was loaded empty: the
\* collection holds items 11 and 10
C16_Witness ==
    /\ last = "CreateResolve"
    /\ Len(todos) = 2
    /\ todos[1].id = IdStr(11) /\ todos[2].id = IdStr(10)

\* C17: there is at most one draft and no member of the collection lacks an
\* id; pressing add while there is a draft (also one whose POST is
\* outstanding) leaves one draft, the same TodoItem with its buffer and its
\* saving flag, the collection and the requests as they were; and a create
\* that succeeds adds one item and leaves no draft.
C17_SingleDraft ==
    /\ [](Len(newTodo) <= 1 /\ \A i \in 1 .. Len(todos) : todos[i].id # NoId)
    /\ [][/\ (last' = "StartDraft" /\ newTodo # <<>>) =>
                (/\ Len(newTodo') = 1
                 /\ UNCHANGED <<todos, net, draftInst>>
                 /\ ctl'[NoId].mounted
                 /\ ctl'[NoId].text = ctl[NoId].text
                 /\ ctl'[NoId].isSaving = ctl[NoId].isSaving)
          /\ (last' = "CreateResolve" /\ appMounted) =>
                (/\ Len(todos') = Len(todos) + 1
                 /\ newTodo' = <<>>)]_vars

\* add was pressed while the POST of the draft, which carries "B", was
\* outstanding: one draft, still saving, with its buffer
C17_Witness ==
    /\ last = "StartDraft"
    /\ Len(newTodo) = 1
    /\ ctl[NoId].mounted /\ ctl[NoId].isSaving /\ ctl[NoId].text = "B"
    /\ \E r \in InFlight("POST") : r.text = "B" /\ r.owner = Owner(NoId)

\* the requests of a TodoItem that were rejected
Rejected == {r \in BagToSet(net) : r.status = "failed"}

\* C18: a rejection leaves the collection as it was; a TodoItem one of whose
\* requests was rejected is saving for as long as it is mounted; and no
\* TodoItem sends again, without a commit gesture of the user, a request of
\* its own that was rejected.
C18_RejectedStaysSavingNoRetry ==
    [][/\ last' = "Reject" => UNCHANGED todos
       /\ \A r \in Rejected :
            OwnerLive(r.owner) => ctl[r.owner.slot].isSaving
       /\ (net' # net /\ last' # "handleSubmit") =>
            \A r \in Rejected :
                ~\E q \in BagToSet(net') :
                    /\ q.owner = r.owner /\ q.method = r.method /\ q.id = r.id
                    /\ q.status = "pending"
                    /\ CopiesIn(q, net') > CopiesIn(q, net)]_vars

\* C19: a mounted TodoItem that has a request outstanding is saving; stated
\* for the TodoItems of persisted items, whose requests are the updates of
\* saveTodo and the deletes of destroyTodo.
C19_SavingWhileOutstanding ==
    \A r \in BagToSet(net) :
        (r.status = "pending" /\ r.owner.slot # NoId /\ OwnerLive(r.owner))
            => ctl[r.owner.slot].isSaving

\* C20: a TodoItem has at most one timer pending, whatever sequence of
\* checks and unchecks it received, and a timer that a check started has the
\* whole delay to run.
C20_OneCountdownPerItem ==
    /\ [](\A s \in Slots : Len(ctl[s].timers) <= 1)
    /\ [][last' = "handleCheckboxChange" =>
            \A s \in Slots :
                (~ctl[s].isChecked /\ ctl'[s].isChecked)
                    => ctl'[s].timers = <<DelayTicks>>]_vars

\* item 9 was just checked (the state is the same after a check, an uncheck
\* once the first countdown had elapsed or not, and a new check): one timer,
\* with the whole delay to run, and no DELETE sent
C20_Witness ==
    /\ last = "handleCheckboxChange"
    /\ LET s == IdStr(9)
       IN  /\ ctl[s].mounted /\ ctl[s].isChecked
           /\ ctl[s].timers = <<DelayTicks>>
           /\ Deletes(s) = 0

\* C21: no member of the collection has the empty text and no create or
\* update request that is outstanding carries it.
C21_NoEmptyTextPersisted ==
    /\ \A i \in 1 .. Len(todos) : todos[i].text # ""
    /\ \A r \in InFlight("POST") \cup InFlight("PATCH") : r.text # ""

\* C22: pressing add, and the completion of a request for another id (or of
\* a create), leave the timers of a persisted TodoItem that stays mounted as
\* they were: a pending countdown is neither cancelled nor restarted and no
\* timer is armed where none was pending.
C22_CountdownFrame ==
    [][/\ last' = "StartDraft" =>
            \A s \in AllIds :
                (ctl[s].mounted /\ ctl'[s].mounted)
                    => ctl'[s].timers = ctl[s].timers
       /\ last' \in {"CreateResolve", "SaveResolve", "DestroyResolve"} =>
            \A r \in BagToSet(net) :
                (r.status = "pending" /\ net' = Completed(r, "ok")) =>
                    \A s \in AllIds \ {r.id} :
                        (ctl[s].mounted /\ ctl'[s].mounted)
                            => ctl'[s].timers = ctl[s].timers]_vars

\* what the completion of request r makes of the collection td of a mounted
\* TodoApp: didCreate, didSave or didDestroy, then the render
Folded(r, td) ==
    RenderTodos(appMounted, isLoading,
        CASE r.method = "POST" ->
                addTodo(td, [id |-> IdStr(nextId), text |-> r.text])
          [] r.method = "PATCH" ->
                updateTodo(td, [id |-> r.id, text |-> r.text])
          [] r.method = "DELETE" -> removeTodo(td, r.id))

\* the collection holds what request r asked for
HasEffect(r, td) ==
    CASE r.method = "POST" ->
            \E i \in 1 .. Len(td) :
                td[i] = [id |-> IdStr(nextId), text |-> r.text]
      [] r.method = "PATCH" ->
            HasId(todos, r.id) => (HasId(td, r.id) /\ TextOf(td, r.id) = r.text)
      [] r.method = "DELETE" -> ~HasId(td, r.id)

\* C23: when requests for two different items are outstanding on a mounted
\* TodoApp, completing them in either order gives the same collection, which
\* holds the effect of both; and a completion makes of the collection what
\* Folded says.
C23_CompletionsCommute ==
    /\ [](appMounted =>
            \A r1, r2 \in {r \in BagToSet(net) : r.status = "pending"} :
                r1.id # r2.id =>
                    LET a == Folded(r2, Folded(r1, todos))
                        b == Folded(r1, Folded(r2, todos))
                    IN  a = b /\ HasEffect(r1, a) /\ HasEffect(r2, a))
    /\ [][(last' \in {"CreateResolve", "SaveResolve", "DestroyResolve"} /\ appMounted) =>
            \A r \in BagToSet(net) :
                (r.status = "pending" /\ net' = Completed(r, "ok"))
                    => todos' = Folded(r, todos)]_vars

\* the create of the draft has just completed while the DELETE of item 9 was
\* outstanding, and still is: the collection holds 10 and 9
C23_Witness ==
    /\ last = "CreateResolve"
    /\ appMounted
    /\ HasId(todos, IdStr(10)) /\ HasId(todos, IdStr(9))
    /\ \E r \in InFlight("DELETE") : r.id = IdStr(9)

\* a DELETE for the id has succeeded
Removed(id) ==
    \E r \in BagToSet(net) : r.method = "DELETE" /\ r.id = id /\ r.status = "ok"

\* C24: the completion of a create, update or delete never puts back into
\* the collection an id whose DELETE has succeeded and which is not there;
\* and the completion of an update or a delete for an id that is not in the
\* collection leaves the collection as it was.
C24_NoResurrection ==
    [][last' \in {"CreateResolve", "SaveResolve", "DestroyResolve"} =>
        /\ \A id \in AllIds :
                (Removed(id) /\ ~HasId(todos, id)) => ~HasId(todos', id)
        /\ \A r \in BagToSet(net) :
                (/\ r.status = "pending" /\ net' = Completed(r, "ok")
                 /\ r.method \in {"PATCH", "DELETE"}
                 /\ ~HasId(todos, r.id))
                    => todos' = todos]_vars

\* the PATCH of item 9 has just succeeded after its DELETE had: item 9 is
\* not in the collection
C24_Witness ==
    /\ last = "SaveResolve"
    /\ appMounted
    /\ Removed(IdStr(9))
    /\ \E r \in BagToSet(net) :
            r.method = "PATCH" /\ r.id = IdStr(9) /\ r.status = "ok"
    /\ ~HasId(todos, IdStr(9))

====
